---- MODULE Spec2Model ----
\* A model of src/music_ai.py: the Streamlit script that saves an uploaded WAV
\* to a temp file, analyses it, asks a cloud model for suggestions, rebuilds the
\* detected pitch sequence as MIDI notes, synthesises a WAV and serves both.
\*
\* Every run of the script is one pass over lines 22-114 on behalf of one
\* browser session.  Sessions share the process working directory, hence the
\* files generated_bgm.mid / generated_bgm.wav, and the temp directory.
\*
\* Numbers the script handles as floats (pitches in Hz, times in seconds) are
\* exact rationals <<num, den>> here, kept in lowest terms; float rounding is
\* not modelled.
EXTENDS Integers, Sequences, FiniteSets, TLC

\* ---------------------------------------------------------------- rationals

RECURSIVE GCD(_, _)
GCD(a, b) == IF b = 0 THEN a ELSE GCD(b, a % b)

Abs(a) == IF a < 0 THEN -a ELSE a

\* n/d in lowest terms, d > 0
Rat(n, d) ==
    LET g == GCD(Abs(n), Abs(d))
        sgn == IF d < 0 THEN -1 ELSE 1
    IN  <<sgn * (n \div g), sgn * (d \div g)>>

RInt(k) == <<k, 1>>
RAdd(a, b) == Rat(a[1] * b[2] + b[1] * a[2], a[2] * b[2])
RSub(a, b) == Rat(a[1] * b[2] - b[1] * a[2], a[2] * b[2])
RMul(a, b) == Rat(a[1] * b[1], a[2] * b[2])
RDivInt(a, k) == Rat(a[1], a[2] * k)
RLess(a, b) == a[1] * b[2] < b[1] * a[2]
RLeq(a, b) == a[1] * b[2] <= b[1] * a[2]

RECURSIVE RSum(_)
RSum(seq) == IF seq = <<>> THEN RInt(0) ELSE RAdd(seq[1], RSum(Tail(seq)))

\* Python's int() on a float: truncation toward zero
int(a) == IF a[1] >= 0 THEN a[1] \div a[2] ELSE -((-a[1]) \div a[2])

\* ---------------------------------------------------------------- options

\* Python's None / a missing file is the empty sequence, a present value a
\* one-element sequence.
None == <<>>
Some(x) == <<x>>

\* ---------------------------------------------------------------- bounds

\* longest recording (in piptrack frames) of the single-run specification
MaxFrames == 3
\* size of the pool of temp-file names
MaxTemp == 2

\* ---------------------------------------------------------------- inputs

Sessions == {"s1", "s2"}

\* Per-frame maxima librosa.piptrack can report, in Hz: a silent frame (0), a
\* value under the MIDI range, a fractional value inside it, one above it.
FrameValues == {RInt(0), Rat(31, 2), Rat(121, 2), RInt(440)}

RECURSIVE SeqsUpTo(_, _)
SeqsUpTo(S, n) ==
    IF n = 0 THEN {<<>>}
    ELSE LET shorter == SeqsUpTo(S, n - 1)
         IN  shorter \cup {Append(q, x) : q \in shorter, x \in S}

\* An uploaded recording is what the analysis will find in it: the per-frame
\* pitch maxima and the tempo of the beat tracker.
AllRecordings == [frames : SeqsUpTo(FrameValues, MaxFrames), tempo : {RInt(90)}]

Recordings ==
    { [frames |-> <<RInt(440)>>, tempo |-> RInt(90)],
      [frames |-> <<Rat(121, 2), RInt(0), Rat(31, 2)>>, tempo |-> Rat(241, 2)],
      [frames |-> <<RInt(0)>>, tempo |-> RInt(90)] }

\* the two recordings of the two-session specification
TwoRecordings ==
    { [frames |-> <<RInt(440)>>, tempo |-> RInt(90)],
      [frames |-> <<Rat(121, 2), RInt(0), Rat(31, 2)>>, tempo |-> Rat(241, 2)] }

Ragas == {"Yaman", "Bhairav"}
Moods == {"Peaceful", "Energetic", "Sad", "Meditative", "Joyful"}
SomeMoods == {"Peaceful", "Sad"}

\* Replies of the cloud model, as sequences of tokens; " " is whitespace.
Texts == { <<"Sa", "Re", "Ga">>, <<" ", "Ni", " ", "Dha", " ">> }

TempNames == 1..MaxTemp

\* ---------------------------------------------------------------- state

VARIABLES
    pc,                \* session -> position of its current run in the script
    uploaded_file,     \* session -> Option(recording)        (line 22)
    audio_path,        \* session -> Option(temp name)        (line 28)
    y,                 \* session -> Option(recording loaded) (line 31)
    tempo,             \* session -> Option(rational)         (line 34)
    pitch_values,      \* session -> sequence of rationals    (line 36)
    avg_pitch,         \* session -> rational                 (line 37)
    raga_choice,       \* session -> Option(raga)             (line 45)
    mood_choice,       \* session -> Option(mood)             (line 46)
    prompt,            \* session -> Option(prompt record)    (line 51)
    ai_suggestions,    \* session -> Option(token sequence)   (line 58)
    notes,             \* session -> instrument.notes         (line 77)
    synthesized_audio, \* session -> Option(audio record)     (lines 88, 90)
    served,            \* session -> what the page of this run shows
    log,               \* session -> the steps this run has taken, in order
    disk_temp,         \* temp name -> Option(recording): the temp directory
    disk_out           \* "mid"/"wav" -> Option(content): the working directory

locals == <<uploaded_file, audio_path, y, tempo, pitch_values, avg_pitch,
            raga_choice, mood_choice, prompt, ai_suggestions, notes,
            synthesized_audio, served>>
vars == <<pc, locals, log, disk_temp, disk_out>>

NothingServed ==
    [suggestion |-> None, midi |-> None, wav |-> None, audio |-> None, plot |-> None]

Init ==
    /\ pc = [s \in Sessions |-> "start"]
    /\ uploaded_file = [s \in Sessions |-> None]
    /\ audio_path = [s \in Sessions |-> None]
    /\ y = [s \in Sessions |-> None]
    /\ tempo = [s \in Sessions |-> None]
    /\ pitch_values = [s \in Sessions |-> <<>>]
    /\ avg_pitch = [s \in Sessions |-> RInt(0)]
    /\ raga_choice = [s \in Sessions |-> None]
    /\ mood_choice = [s \in Sessions |-> None]
    /\ prompt = [s \in Sessions |-> None]
    /\ ai_suggestions = [s \in Sessions |-> None]
    /\ notes = [s \in Sessions |-> <<>>]
    /\ synthesized_audio = [s \in Sessions |-> None]
    /\ served = [s \in Sessions |-> NothingServed]
    /\ log = [s \in Sessions |-> <<>>]
    /\ disk_temp = [n \in TempNames |-> None]
    /\ disk_out = [f \in {"mid", "wav"} |-> None]

\* ---------------------------------------------------------------- helpers

Goto(s, l) == pc' = [pc EXCEPT ![s] = l]
Logged(s, e) == log' = [log EXCEPT ![s] = Append(@, e)]

\* An exception nobody catches: the run stops where it is (Streamlit shows its
\* default error box); line 114 is not reached.
Raise(s, e) == Goto(s, "aborted") /\ Logged(s, e)

\* ---------------------------------------------------------------- functions

\* tempfile.NamedTemporaryFile picks a name no file has yet
FreeNames == {n \in TempNames : disk_temp[n] = None}
FreshName == CHOOSE n \in FreeNames : \A m \in FreeNames : n <= m

\* line 36: per-frame maxima, frames whose maximum is not positive dropped
PitchValues(frames) == SelectSeq(frames, LAMBDA f : RLess(RInt(0), f))

\* line 37
AvgPitch(pv) == IF pv # <<>> THEN RDivInt(RSum(pv), Len(pv)) ELSE RInt(0)

\* f"{x:.2f}": x in hundredths, rounded to the nearest
Format2f(x) == (2 * 100 * x[1] + x[2]) \div (2 * x[2])

\* str.lower() on the moods of the select box
lower(m) ==
    CASE m = "Peaceful" -> "peaceful"
      [] m = "Energetic" -> "energetic"
      [] m = "Sad" -> "sad"
      [] m = "Meditative" -> "meditative"
      [] m = "Joyful" -> "joyful"

\* lines 51-55
Prompt(avg, tmp, raga, mood) ==
    [avg_pitch |-> Format2f(avg), tempo |-> Format2f(tmp),
     raga |-> raga, mood |-> lower(mood)]

\* str.strip(): leading and trailing whitespace removed
RECURSIVE lstrip(_)
lstrip(t) == IF t # <<>> /\ Head(t) = " " THEN lstrip(Tail(t)) ELSE t
RECURSIVE rstrip(_)
rstrip(t) ==
    IF t # <<>> /\ t[Len(t)] = " " THEN rstrip(SubSeq(t, 1, Len(t) - 1)) ELSE t
strip(t) == rstrip(lstrip(t))

\* ---------------------------------------------------------------- variants
\* Faulty variants of the definitions below, used to show that the properties
\* at the end of the module depend on them.

\* np.linspace(..., endpoint=False): the step is (stop - start) / num
linspaceOpen(start, stop, num) ==
    [i \in 1..num |-> RAdd(start, RMul(RInt(i - 1), RDivInt(RSub(stop, start), num)))]

\* a note whose pitch is int(pitch), the clip forgotten
NoteUnclipped(pitch, duration, start_time) ==
    [velocity |-> 100,
     pitch |-> int(pitch),
     start |-> start_time,
     end |-> RAdd(start_time, duration)]

\* np.linspace(start, stop, num): num evenly spaced samples, both ends
\* included; one sample is start alone
linspace(start, stop, num) ==
    [i \in 1..num |->
        IF num = 1 THEN start
        ELSE RAdd(start, RMul(RInt(i - 1), RDivInt(RSub(stop, start), num - 1)))]

\* np.clip(x, lo, hi)
clip(x, lo, hi) == IF RLess(x, lo) THEN lo ELSE IF RLess(hi, x) THEN hi ELSE x

\* lines 71-76: one pretty_midi.Note
Note(pitch, duration, start_time) ==
    [velocity |-> 100,
     pitch |-> int(clip(pitch, RInt(21), RInt(108))),
     start |-> start_time,
     end |-> RAdd(start_time, duration)]

\* the loop without "start_time += duration"
RECURSIVE NoteLoopNoAdvance(_, _, _, _, _)
NoteLoopNoAdvance(pv, durations, i, start_time, appended) ==
    IF i > Len(pv) \/ i > Len(durations) THEN appended
    ELSE NoteLoopNoAdvance(pv, durations, i + 1, start_time,
             Append(appended,
                    [velocity |-> 100,
                     pitch |-> int(clip(pv[i], RInt(21), RInt(108))),
                     start |-> start_time,
                     end |-> RAdd(start_time, durations[i])]))

\* lines 68-78: the loop over zip(pitch_values, note_durations), from its
\* i-th iteration on, with the notes appended so far
RECURSIVE NoteLoop(_, _, _, _, _)
NoteLoop(pv, durations, i, start_time, appended) ==
    IF i > Len(pv) \/ i > Len(durations) THEN appended
    ELSE NoteLoop(pv, durations, i + 1, RAdd(start_time, durations[i]),
                  Append(appended, Note(pv[i], durations[i], start_time)))

\* lines 65-80
BuildNotes(pv) ==
    NoteLoop(pv, linspace(Rat(1, 2), Rat(3, 2), Len(pv)), 1, RInt(0), <<>>)

\* backend A outside any try: its raise ends the run
FluidsynthNoFallback(s, ok) ==
    /\ pc[s] = "fluidsynth"
    /\ IF ok
       THEN /\ synthesized_audio' = [synthesized_audio EXCEPT ![s] =
                 Some([backend |-> "fluidsynth", notes |-> notes[s]])]
            /\ Goto(s, "write_wav")
            /\ Logged(s, "fluidsynth_ok")
       ELSE /\ Goto(s, "aborted")
            /\ Logged(s, "fluidsynth_raised")
            /\ UNCHANGED synthesized_audio
    /\ UNCHANGED <<uploaded_file, audio_path, y, tempo, pitch_values, avg_pitch,
                   raga_choice, mood_choice, prompt, ai_suggestions, notes,
                   served, disk_temp, disk_out>>

\* sf.write inside a try whose except passes: the run goes on without the file
WriteWavSwallowed(s, ok) ==
    /\ pc[s] = "write_wav"
    /\ IF ok
       THEN /\ disk_out' = [disk_out EXCEPT !["wav"] = synthesized_audio[s]]
            /\ Logged(s, "wav_written")
       ELSE /\ Logged(s, "wav_write_raised")
            /\ UNCHANGED disk_out
    /\ Goto(s, "success")
    /\ UNCHANGED <<locals, disk_temp>>

\* the notes are built and midi.write is left out
GenerateMidiUnwritten(s) ==
    /\ pc[s] = "build_notes"
    /\ notes' = [notes EXCEPT ![s] = BuildNotes(pitch_values[s])]
    /\ Goto(s, "fluidsynth")
    /\ Logged(s, "notes_built")
    /\ UNCHANGED <<uploaded_file, audio_path, y, tempo, pitch_values, avg_pitch,
                   raga_choice, mood_choice, prompt, ai_suggestions,
                   synthesized_audio, served, disk_temp, disk_out>>

\* the notes are transposed by a semitone for one of the ragas
GenerateMidiByRaga(s) ==
    /\ pc[s] = "build_notes"
    /\ notes' = [notes EXCEPT ![s] =
         BuildNotes([i \in DOMAIN pitch_values[s] |->
            RAdd(pitch_values[s][i],
                 RInt(IF raga_choice[s] = Some("Bhairav") THEN 1 ELSE 0))])]
    /\ Goto(s, "write_midi")
    /\ Logged(s, "notes_built")
    /\ UNCHANGED <<uploaded_file, audio_path, y, tempo, pitch_values, avg_pitch,
                   raga_choice, mood_choice, prompt, ai_suggestions,
                   synthesized_audio, served, disk_temp, disk_out>>

\* the generation block one indentation level out: it runs whatever the button
ReadInputsUngated(s, raga, mood, pressed) ==
    /\ pc[s] = "inputs"
    /\ raga_choice' = [raga_choice EXCEPT ![s] = Some(raga)]
    /\ mood_choice' = [mood_choice EXCEPT ![s] = Some(mood)]
    /\ Goto(s, "prompt")
    /\ Logged(s, IF pressed THEN "button_pressed" ELSE "button_idle")
    /\ UNCHANGED <<uploaded_file, audio_path, y, tempo, pitch_values, avg_pitch,
                   prompt, ai_suggestions, notes, synthesized_audio, served,
                   disk_temp, disk_out>>

\* ---------------------------------------------------------------- actions

\* lines 22-28: the uploader is read; with a file, its bytes go to a fresh
\* temp file that outlives the with-block (delete=False)
StartRun(s, up) ==
    /\ pc[s] = "start"
    /\ uploaded_file' = [uploaded_file EXCEPT ![s] = up]
    /\ IF up = None
       THEN /\ Goto(s, "done")
            /\ UNCHANGED <<audio_path, disk_temp, log>>
       ELSE /\ FreeNames # {}
            /\ disk_temp' = [disk_temp EXCEPT ![FreshName] = up]
            /\ audio_path' = [audio_path EXCEPT ![s] = Some(FreshName)]
            /\ Goto(s, "load")
            /\ Logged(s, "temp_written")
    /\ UNCHANGED <<y, tempo, pitch_values, avg_pitch, raga_choice, mood_choice,
                   prompt, ai_suggestions, notes, synthesized_audio, served,
                   disk_out>>

\* line 31: librosa.load(audio_path)
LoadAudio(s, ok) ==
    /\ pc[s] = "load"
    /\ IF ok
       THEN /\ y' = [y EXCEPT ![s] = disk_temp[audio_path[s][1]]]
            /\ Goto(s, "extract")
            /\ Logged(s, "loaded")
       ELSE /\ Raise(s, "load_raised")
            /\ UNCHANGED y
    /\ UNCHANGED <<uploaded_file, audio_path, tempo, pitch_values, avg_pitch,
                   raga_choice, mood_choice, prompt, ai_suggestions, notes,
                   synthesized_audio, served, disk_temp, disk_out>>

\* lines 34-37: beat_track, piptrack, pitch_values, avg_pitch
ExtractFeatures(s, ok) ==
    /\ pc[s] = "extract"
    /\ IF ok
       THEN /\ tempo' = [tempo EXCEPT ![s] = Some(y[s][1].tempo)]
            /\ pitch_values' =
                 [pitch_values EXCEPT ![s] = PitchValues(y[s][1].frames)]
            /\ avg_pitch' =
                 [avg_pitch EXCEPT ![s] = AvgPitch(PitchValues(y[s][1].frames))]
            /\ Goto(s, "inputs")
            /\ Logged(s, "analyzed")
       ELSE /\ Raise(s, "extract_raised")
            /\ UNCHANGED <<tempo, pitch_values, avg_pitch>>
    /\ UNCHANGED <<uploaded_file, audio_path, y, raga_choice, mood_choice,
                   prompt, ai_suggestions, notes, synthesized_audio, served,
                   disk_temp, disk_out>>

\* lines 40-49: the analysis is shown, the raga, the mood and the button are
\* read; without the button the script skips to line 114
ReadInputs(s, raga, mood, pressed) ==
    /\ pc[s] = "inputs"
    /\ raga_choice' = [raga_choice EXCEPT ![s] = Some(raga)]
    /\ mood_choice' = [mood_choice EXCEPT ![s] = Some(mood)]
    /\ Goto(s, IF pressed THEN "prompt" ELSE "cleanup")
    /\ Logged(s, IF pressed THEN "button_pressed" ELSE "button_idle")
    /\ UNCHANGED <<uploaded_file, audio_path, y, tempo, pitch_values, avg_pitch,
                   prompt, ai_suggestions, notes, synthesized_audio, served,
                   disk_temp, disk_out>>

\* lines 51-58: the prompt is built and sent; the reply is stripped
SendMessage(s, ok, text) ==
    /\ pc[s] = "prompt"
    /\ prompt' = [prompt EXCEPT ![s] =
         Some(Prompt(avg_pitch[s], tempo[s][1], raga_choice[s][1], mood_choice[s][1]))]
    /\ IF ok
       THEN /\ ai_suggestions' = [ai_suggestions EXCEPT ![s] = Some(strip(text))]
            /\ Goto(s, "show_suggestions")
            /\ Logged(s, "model_replied")
       ELSE /\ Raise(s, "model_raised")
            /\ UNCHANGED ai_suggestions
    /\ UNCHANGED <<uploaded_file, audio_path, y, tempo, pitch_values, avg_pitch,
                   raga_choice, mood_choice, notes, synthesized_audio, served,
                   disk_temp, disk_out>>

\* lines 61-62
ShowSuggestions(s) ==
    /\ pc[s] = "show_suggestions"
    /\ served' = [served EXCEPT ![s].suggestion = ai_suggestions[s]]
    /\ Goto(s, "build_notes")
    /\ Logged(s, "suggestion_shown")
    /\ UNCHANGED <<uploaded_file, audio_path, y, tempo, pitch_values, avg_pitch,
                   raga_choice, mood_choice, prompt, ai_suggestions, notes,
                   synthesized_audio, disk_temp, disk_out>>

\* lines 65-80
GenerateMidi(s) ==
    /\ pc[s] = "build_notes"
    /\ notes' = [notes EXCEPT ![s] = BuildNotes(pitch_values[s])]
    /\ Goto(s, "write_midi")
    /\ Logged(s, "notes_built")
    /\ UNCHANGED <<uploaded_file, audio_path, y, tempo, pitch_values, avg_pitch,
                   raga_choice, mood_choice, prompt, ai_suggestions,
                   synthesized_audio, served, disk_temp, disk_out>>

\* lines 83-85: midi.write("generated_bgm.mid")
WriteMidi(s, ok) ==
    /\ pc[s] = "write_midi"
    /\ IF ok
       THEN /\ disk_out' = [disk_out EXCEPT !["mid"] = Some(notes[s])]
            /\ Goto(s, "fluidsynth")
            /\ Logged(s, "midi_written")
       ELSE /\ Raise(s, "midi_write_raised")
            /\ UNCHANGED disk_out
    /\ UNCHANGED <<locals, disk_temp>>

\* lines 87-89: backend A inside try; a bare except catches whatever it raises
Fluidsynth(s, ok) ==
    /\ pc[s] = "fluidsynth"
    /\ IF ok
       THEN /\ synthesized_audio' = [synthesized_audio EXCEPT ![s] =
                 Some([backend |-> "fluidsynth", notes |-> notes[s]])]
            /\ Goto(s, "write_wav")
            /\ Logged(s, "fluidsynth_ok")
       ELSE /\ Goto(s, "synthesize")
            /\ Logged(s, "fluidsynth_raised")
            /\ UNCHANGED synthesized_audio
    /\ UNCHANGED <<uploaded_file, audio_path, y, tempo, pitch_values, avg_pitch,
                   raga_choice, mood_choice, prompt, ai_suggestions, notes,
                   served, disk_temp, disk_out>>

\* line 90: backend B, in the except clause
Synthesize(s, ok) ==
    /\ pc[s] = "synthesize"
    /\ IF ok
       THEN /\ synthesized_audio' = [synthesized_audio EXCEPT ![s] =
                 Some([backend |-> "synthesize", notes |-> notes[s]])]
            /\ Goto(s, "write_wav")
            /\ Logged(s, "synthesize_ok")
       ELSE /\ Raise(s, "synthesize_raised")
            /\ UNCHANGED synthesized_audio
    /\ UNCHANGED <<uploaded_file, audio_path, y, tempo, pitch_values, avg_pitch,
                   raga_choice, mood_choice, prompt, ai_suggestions, notes,
                   served, disk_temp, disk_out>>

\* line 92: sf.write("generated_bgm.wav", synthesized_audio, sr)
WriteWav(s, ok) ==
    /\ pc[s] = "write_wav"
    /\ IF ok
       THEN /\ disk_out' = [disk_out EXCEPT !["wav"] = synthesized_audio[s]]
            /\ Goto(s, "success")
            /\ Logged(s, "wav_written")
       ELSE /\ Raise(s, "wav_write_raised")
            /\ UNCHANGED disk_out
    /\ UNCHANGED <<locals, disk_temp>>

\* line 93
Success(s) ==
    /\ pc[s] = "success"
    /\ Goto(s, "midi_button")
    /\ Logged(s, "success")
    /\ UNCHANGED <<locals, disk_temp, disk_out>>

\* lines 96-97: the MIDI file is opened and its bytes handed to the button
DownloadMidi(s) ==
    /\ pc[s] = "midi_button"
    /\ served' = [served EXCEPT ![s].midi = disk_out["mid"]]
    /\ Goto(s, "wav_button")
    /\ Logged(s, "midi_button")
    /\ UNCHANGED <<uploaded_file, audio_path, y, tempo, pitch_values, avg_pitch,
                   raga_choice, mood_choice, prompt, ai_suggestions, notes,
                   synthesized_audio, disk_temp, disk_out>>

\* lines 98-99
DownloadWav(s) ==
    /\ pc[s] = "wav_button"
    /\ served' = [served EXCEPT ![s].wav = disk_out["wav"]]
    /\ Goto(s, "audio_player")
    /\ Logged(s, "wav_button")
    /\ UNCHANGED <<uploaded_file, audio_path, y, tempo, pitch_values, avg_pitch,
                   raga_choice, mood_choice, prompt, ai_suggestions, notes,
                   synthesized_audio, disk_temp, disk_out>>

\* line 102: st.audio reads the WAV file by name
AudioPlayer(s) ==
    /\ pc[s] = "audio_player"
    /\ served' = [served EXCEPT ![s].audio = disk_out["wav"]]
    /\ Goto(s, "plot")
    /\ Logged(s, "audio_player")
    /\ UNCHANGED <<uploaded_file, audio_path, y, tempo, pitch_values, avg_pitch,
                   raga_choice, mood_choice, prompt, ai_suggestions, notes,
                   synthesized_audio, disk_temp, disk_out>>

\* lines 105-111
Plot(s) ==
    /\ pc[s] = "plot"
    /\ served' = [served EXCEPT ![s].plot =
         Some([line |-> pitch_values[s], title |-> raga_choice[s][1]])]
    /\ Goto(s, "cleanup")
    /\ Logged(s, "plot")
    /\ UNCHANGED <<uploaded_file, audio_path, y, tempo, pitch_values, avg_pitch,
                   raga_choice, mood_choice, prompt, ai_suggestions, notes,
                   synthesized_audio, disk_temp, disk_out>>

\* line 114: os.remove(audio_path), then the script ends
Cleanup(s) ==
    /\ pc[s] = "cleanup"
    /\ disk_temp' = [disk_temp EXCEPT ![audio_path[s][1]] = None]
    /\ Goto(s, "done")
    /\ Logged(s, "temp_removed")
    /\ UNCHANGED <<locals, disk_out>>

\* The next interaction of the session runs the script again from the top,
\* with fresh script variables and a fresh page; the files stay as they are.
Rerun(s) ==
    /\ pc[s] \in {"done", "aborted"}
    /\ Goto(s, "start")
    /\ uploaded_file' = [uploaded_file EXCEPT ![s] = None]
    /\ audio_path' = [audio_path EXCEPT ![s] = None]
    /\ y' = [y EXCEPT ![s] = None]
    /\ tempo' = [tempo EXCEPT ![s] = None]
    /\ pitch_values' = [pitch_values EXCEPT ![s] = <<>>]
    /\ avg_pitch' = [avg_pitch EXCEPT ![s] = RInt(0)]
    /\ raga_choice' = [raga_choice EXCEPT ![s] = None]
    /\ mood_choice' = [mood_choice EXCEPT ![s] = None]
    /\ prompt' = [prompt EXCEPT ![s] = None]
    /\ ai_suggestions' = [ai_suggestions EXCEPT ![s] = None]
    /\ notes' = [notes EXCEPT ![s] = <<>>]
    /\ synthesized_audio' = [synthesized_audio EXCEPT ![s] = None]
    /\ served' = [served EXCEPT ![s] = NothingServed]
    /\ log' = [log EXCEPT ![s] = <<>>]
    /\ UNCHANGED <<disk_temp, disk_out>>

\* ---------------------------------------------------------------- specifications

Uploads(R) == {None} \cup {Some(r) : r \in R}

\* the steps of a run that take no input from outside the script
Internal(s) ==
    \/ ShowSuggestions(s)
    \/ GenerateMidi(s)
    \/ Success(s)
    \/ DownloadMidi(s)
    \/ DownloadWav(s)
    \/ AudioPlayer(s)
    \/ Plot(s)
    \/ Cleanup(s)

\* the steps whose library call may raise
Fallible(s, ok) ==
    \/ LoadAudio(s, ok)
    \/ ExtractFeatures(s, ok)
    \/ WriteMidi(s, ok)
    \/ Fluidsynth(s, ok)
    \/ Synthesize(s, ok)
    \/ WriteWav(s, ok)

Step(s, R, M) ==
    \/ \E up \in Uploads(R) : StartRun(s, up)
    \/ \E raga \in Ragas, mood \in M, pressed \in BOOLEAN :
          ReadInputs(s, raga, mood, pressed)
    \/ \E ok \in BOOLEAN, text \in Texts : SendMessage(s, ok, text)
    \/ \E ok \in BOOLEAN : Fallible(s, ok)
    \/ Internal(s)

\* One session, run after run.
Next == Step("s1", Recordings, Moods) \/ Rerun("s1")
Spec == Init /\ [][Next]_vars

\* One session, a single run, every recording of up to MaxFrames frames.
NextRun == Step("s1", AllRecordings, SomeMoods)
SpecRun == Init /\ [][NextRun]_vars

\* Two sessions, one run each, interleaved step by step.
NextTwo == \E s \in Sessions : Step(s, TwoRecordings, SomeMoods)
SpecTwo == Init /\ [][NextTwo]_vars

\* ---------------------------------------------------------------- properties

Events(s) == {log[s][i] : i \in DOMAIN log[s]}

\* position of event e in the run's log, 0 when it did not happen
Pos(s, e) ==
    IF e \in Events(s) THEN CHOOSE i \in DOMAIN log[s] : log[s][i] = e ELSE 0

LastEvent(s) == IF log[s] = <<>> THEN "" ELSE log[s][Len(log[s])]
Happened(s, e) == e \in Events(s)
Ended(s) == pc[s] \in {"done", "aborted"}

\* e happened in the run of s, and a happened before it
Before(s, a, e) == Happened(s, e) => (0 < Pos(s, a) /\ Pos(s, a) < Pos(s, e))

\* C1: backend B (midi.synthesize) is invoked only when backend A
\* (midi.fluidsynth) raised, and is the very next step whenever A raised; a
\* raise of A never ends the run; and after a success of B the run stands
\* exactly where a success of A leaves it: the audio is set, the next step is
\* the write of the WAV file, and the success message follows that write.
C1_FallbackOnly ==
    \A s \in Sessions :
        /\ (Happened(s, "synthesize_ok") \/ Happened(s, "synthesize_raised")
              \/ pc[s] = "synthesize")
             <=> Happened(s, "fluidsynth_raised")
        /\ LastEvent(s) = "fluidsynth_raised" => pc[s] = "synthesize"
        /\ \A i \in DOMAIN log[s] :
             /\ log[s][i] = "fluidsynth_raised" /\ i < Len(log[s])
                  => log[s][i + 1] \in {"synthesize_ok", "synthesize_raised"}
             /\ log[s][i] \in {"fluidsynth_ok", "synthesize_ok"}
                  => /\ synthesized_audio[s] # None
                     /\ synthesized_audio[s][1].notes = notes[s]
                     /\ IF i = Len(log[s]) THEN pc[s] = "write_wav"
                        ELSE log[s][i + 1] \in {"wav_written", "wav_write_raised"}
             /\ log[s][i] = "wav_written"
                  => /\ disk_out["wav"] # None
                     /\ IF i = Len(log[s]) THEN pc[s] = "success"
                        ELSE log[s][i + 1] = "success"

C1_Witness ==
    /\ Happened("s1", "fluidsynth_raised")
    /\ Happened("s1", "synthesize_ok")
    /\ Happened("s1", "wav_written")
    /\ Happened("s1", "success")
    /\ disk_out["wav"] = Some([backend |-> "synthesize", notes |-> notes["s1"]])

Failures ==
    {"load_raised", "extract_raised", "model_raised", "midi_write_raised",
     "synthesize_raised", "wav_write_raised"}

\* C2: a raise of audio loading, feature extraction, the cloud model call, the
\* MIDI write, backend B or the WAV write is the last thing its run does: the
\* run is aborted, and the success message, the download buttons, the audio
\* player and the plot of that run never appear.
C2_FailuresPropagate ==
    \A s \in Sessions :
        /\ \A e \in Failures :
             Happened(s, e) =>
                /\ pc[s] = "aborted"
                /\ LastEvent(s) = e
                /\ ~Happened(s, "success")
                /\ served[s].midi = None /\ served[s].wav = None
                /\ served[s].audio = None /\ served[s].plot = None
        /\ pc[s] = "aborted" => LastEvent(s) \in Failures

C2_Witness ==
    /\ Happened("s1", "wav_write_raised")
    /\ Happened("s1", "suggestion_shown")
    /\ pc["s1"] = "aborted"

\* C3: the steps of a run happen in the order upload, analyze, prompt,
\* synthesize, display: the temp copy is written before the audio is loaded
\* and analyzed, the model is prompted after tempo and average pitch are set
\* (and with them), the MIDI file is written before either backend runs and
\* before the WAV is written, the buttons, the player and the plot come after
\* both files are written, and a generating run that reaches its end has
\* produced the MIDI file, the WAV file, the suggestion and the plot.
C3_LinearPipeline ==
    \A s \in Sessions :
        /\ \A e \in {"loaded", "load_raised"} : Before(s, "temp_written", e)
        /\ \A e \in {"analyzed", "extract_raised"} : Before(s, "loaded", e)
        /\ \A e \in {"model_replied", "model_raised"} :
             /\ Before(s, "analyzed", e)
             /\ Before(s, "button_pressed", e)
        /\ prompt[s] # None =>
             /\ tempo[s] # None
             /\ prompt[s][1].tempo = Format2f(tempo[s][1])
             /\ prompt[s][1].avg_pitch = Format2f(avg_pitch[s])
        /\ Before(s, "model_replied", "notes_built")
        /\ \A e \in {"midi_written", "midi_write_raised"} : Before(s, "notes_built", e)
        /\ \A e \in {"fluidsynth_ok", "fluidsynth_raised", "synthesize_ok",
                     "synthesize_raised", "wav_written", "wav_write_raised"} :
             Before(s, "midi_written", e)
        /\ \A e \in {"midi_button", "wav_button", "audio_player", "plot"} :
             /\ Before(s, "midi_written", e)
             /\ Before(s, "wav_written", e)
             /\ Before(s, "success", e)
        /\ Before(s, "midi_button", "wav_button")
        /\ Before(s, "wav_button", "audio_player")
        /\ Before(s, "audio_player", "plot")
        /\ Before(s, "plot", "temp_removed") \/ Before(s, "button_idle", "temp_removed")
        /\ (pc[s] = "done" /\ Happened(s, "button_pressed")) =>
             /\ disk_out["mid"] # None
             /\ disk_out["wav"] # None
             /\ served[s].suggestion # None
             /\ served[s].plot # None
             /\ served[s].midi # None /\ served[s].wav # None
             /\ served[s].audio # None

C3_Witness ==
    /\ pc["s1"] = "done"
    /\ Happened("s1", "button_pressed")
    /\ Happened("s1", "plot")
    /\ Len(notes["s1"]) = 2

\* C4 (as claimed): once a run has ended, normally or by an unhandled
\* failure, the temp copy it wrote and the output files it wrote are gone.
C4_FilesEphemeral ==
    \A s \in Sessions :
        Ended(s) =>
            /\ audio_path[s] # None => disk_temp[audio_path[s][1]] = None
            /\ Happened(s, "midi_written") => disk_out["mid"] = None
            /\ Happened(s, "wav_written") => disk_out["wav"] = None

Built(s) == Happened(s, "notes_built")
Duration(n) == RSub(n.end, n.start)

\* C5: two runs that built their notes from the same pitch sequence built the
\* same notes, whatever raga, mood and model reply each of them had.
C5_NotesFromAudioOnly ==
    \A s, t \in Sessions :
        (Built(s) /\ Built(t) /\ pitch_values[s] = pitch_values[t])
            => notes[s] = notes[t]

C5_Witness ==
    /\ Built("s1") /\ Built("s2")
    /\ pitch_values["s1"] = pitch_values["s2"]
    /\ Len(pitch_values["s1"]) = 2
    /\ raga_choice["s1"] # raga_choice["s2"]
    /\ mood_choice["s1"] # mood_choice["s2"]
    /\ ai_suggestions["s1"] # ai_suggestions["s2"]
    /\ notes["s1"] = notes["s2"]

\* C6 (as claimed): all notes of a clip have one and the same duration.
C6_FixedDuration ==
    \A s \in Sessions :
        Built(s) =>
            \A i, j \in DOMAIN notes[s] :
                Duration(notes[s][i]) = Duration(notes[s][j])

\* C6 (amended): the duration of a note is fixed by its position i in a clip
\* of n notes and by nothing else: 1/2 s when n = 1, 1/2 + (i-1)/(n-1) s
\* otherwise; so the durations of a clip are all equal exactly when n <= 1.
C6_DurationByPosition ==
    \A s \in Sessions :
        Built(s) =>
            LET n == Len(notes[s]) IN
            /\ \A i \in DOMAIN notes[s] :
                 Duration(notes[s][i]) =
                    IF n = 1 THEN <<1, 2>>
                    ELSE Rat((n - 1) + 2 * (i - 1), 2 * (n - 1))
            /\ (\A i, j \in DOMAIN notes[s] :
                  Duration(notes[s][i]) = Duration(notes[s][j])) <=> n <= 1

C6_Witness ==
    /\ Built("s1")
    /\ Len(notes["s1"]) = 3
    /\ Duration(notes["s1"][1]) = <<1, 2>>
    /\ Duration(notes["s1"][2]) = <<1, 1>>
    /\ Duration(notes["s1"][3]) = <<3, 2>>

\* C7: the detected pitch sequence holds strictly positive values only, and
\* every note built from it has velocity 100 and an integer pitch in 21..108:
\* 21 for a value under 21, 108 for a value over 108, the value truncated
\* otherwise.
C7_SafePitchRange ==
    \A s \in Sessions :
        /\ \A i \in DOMAIN pitch_values[s] : pitch_values[s][i][1] > 0
        /\ Built(s) =>
             \A i \in DOMAIN notes[s] :
                LET p == pitch_values[s][i]
                    q == notes[s][i].pitch
                IN  /\ q \in 21..108
                    /\ notes[s][i].velocity = 100
                    /\ p[1] < 21 * p[2] => q = 21
                    /\ p[1] > 108 * p[2] => q = 108
                    /\ (21 * p[2] <= p[1] /\ p[1] <= 108 * p[2])
                         => (q * p[2] <= p[1] /\ p[1] < (q + 1) * p[2])

C7_Witness ==
    /\ Built("s1")
    /\ Len(y["s1"][1].frames) = 3
    /\ Len(notes["s1"]) = 2
    /\ notes["s1"][1].pitch = 21
    /\ notes["s1"][2].pitch = 60

\* C8: the loop appends one note per pitch value, in order; the first note
\* starts at 0, every later note starts where the one before it ends, every
\* note ends after it starts, lasts between 0.5 and 1.5 s and no shorter than
\* the one before it, and the last note ends at the sum of all durations.
C8_GapFreeMelody ==
    \A s \in Sessions :
        Built(s) =>
            LET ns == notes[s]
                n == Len(ns)
            IN  /\ n = Len(pitch_values[s])
                /\ n = Cardinality({i \in DOMAIN y[s][1].frames :
                                      y[s][1].frames[i][1] > 0})
                /\ \A i \in 1..n :
                     /\ ns[i].pitch = int(clip(pitch_values[s][i], RInt(21), RInt(108)))
                     /\ RLess(ns[i].start, ns[i].end)
                     /\ RLeq(<<1, 2>>, Duration(ns[i]))
                     /\ RLeq(Duration(ns[i]), <<3, 2>>)
                     /\ i = 1 => ns[i].start = <<0, 1>>
                     /\ i > 1 => /\ ns[i].start = ns[i - 1].end
                                 /\ RLeq(Duration(ns[i - 1]), Duration(ns[i]))
                /\ n > 0 => ns[n].end = RSum([i \in 1..n |-> Duration(ns[i])])

C8_Witness ==
    /\ Built("s1")
    /\ Len(notes["s1"]) = 3
    /\ notes["s1"][3].end = <<3, 1>>
    /\ notes["s1"][1].pitch # notes["s1"][2].pitch

\* C9 (as claimed): whatever a session's download buttons and audio player
\* serve is the MIDI, and a WAV synthesised from the notes, that the session
\* generated from its own upload.
C9_OwnFilesServed ==
    \A s \in Sessions :
        /\ served[s].midi # None => served[s].midi = Some(notes[s])
        /\ served[s].wav # None => served[s].wav[1].notes = notes[s]
        /\ served[s].audio # None => served[s].audio[1].notes = notes[s]

\* C10: a run without an upload ends at once, its page and its variables
\* empty and the disk as it was; a run with an upload and without the button
\* builds no prompt, gets no reply, and ends having written, loaded, analyzed
\* and removed its temp file and nothing else; and no step of a run that has
\* not seen the button pressed changes generated_bgm.mid or generated_bgm.wav.
C10_State ==
    \A s \in Sessions :
        /\ (pc[s] = "done" /\ uploaded_file[s] = None) =>
             /\ log[s] = <<>>
             /\ audio_path[s] = None /\ y[s] = None /\ prompt[s] = None
             /\ served[s] = NothingServed
        /\ Happened(s, "button_idle") =>
             /\ prompt[s] = None /\ ai_suggestions[s] = None
             /\ notes[s] = <<>> /\ synthesized_audio[s] = None
             /\ served[s] = NothingServed
             /\ pc[s] \in {"cleanup", "done"}
             /\ pc[s] = "done" =>
                  /\ log[s] = <<"temp_written", "loaded", "analyzed",
                                "button_idle", "temp_removed">>
                  /\ disk_temp[audio_path[s][1]] = None

C10_Step ==
    /\ ~Happened("s1", "button_pressed")' => disk_out' = disk_out
    /\ (pc["s1"] = "start" /\ pc'["s1"] = "done") =>
          (disk_temp' = disk_temp /\ disk_out' = disk_out)

C10_Gated == []C10_State /\ [][C10_Step]_vars

C10_Witness ==
    /\ pc["s1"] = "done"
    /\ Happened("s1", "button_idle")
    /\ disk_out["mid"] # None
    /\ disk_out["wav"] # None

====
